---- MODULE Spec2Model ----
(***************************************************************************)
(* Markdown -> PDF converter (src/src/index.ts, and its first version      *)
(* src/unnamed/part_000).  Strings are sequences of one-character strings, *)
(* so that endsWith, split, trim, toUpperCase, the image regex and         *)
(* String.replace are computed, not assumed.                               *)
(***************************************************************************)
EXTENDS Integers, Sequences, FiniteSets, TLC

VARIABLES
  argv,       \* process.argv.slice(2): a sequence of strings
  pc,         \* position of the main async function
  format,     \* the selected PaperFormat, or NoFormat
  log,        \* the kinds of console messages printed in this run
  inputDir,   \* INPUT_DIR: [readable, entries], entries in readdirSync order
  images,     \* relative paths under INPUT_DIR that readFileSync can read
  outState,   \* OUTPUT_DIR: "absent", "dir", "notdir" (a file), "unlistable" (no read permission)
  mkdirOk,    \* whether mkdirSync(OUTPUT_DIR) can succeed
  outFiles,   \* names of the entries of OUTPUT_DIR
  locked,     \* entries of OUTPUT_DIR that unlinkSync / a write cannot replace
  files,      \* the discovered list (main's const files)
  idx,        \* number of files whose conversion has been started
  markdown,   \* the inlined text of the Document being converted
  open,       \* indices of the Documents whose browser is open
  launched,   \* indices of the Documents for which a browser was launched
  ended,      \* indices of the Documents whose conversion has ended
  written,    \* artifact names written by page.pdf in this run, in order
  run,        \* which invocation of the program this is: "first" or "second"
  prev,       \* what the previous invocation left: [format, out, log, pc]
  outBefore   \* the entries of OUTPUT_DIR when this invocation started

vars == << argv, pc, format, log, inputDir, images, outState, mkdirOk, outFiles,
           locked, files, idx, markdown, open, launched, ended, written, run, prev,
           outBefore >>

-----------------------------------------------------------------------------
(* Strings                                                                 *)

Min(S) == CHOOSE x \in S : \A y \in S : x <= y

Range(s) == { s[i] : i \in DOMAIN s }

\* s.slice(i-1, j) with 1-based inclusive bounds; empty when j < i
Sub(s, i, j) == IF j < i THEN << >> ELSE SubSeq(s, i, j)

\* the literal lit occurs in s at position i
HasAt(s, i, lit) ==
  /\ i >= 1
  /\ i + Len(lit) - 1 <= Len(s)
  /\ \A k \in 1..Len(lit) : s[i + k - 1] = lit[k]

StartsWith(s, pre) == HasAt(s, 1, pre)

EndsWith(s, suf) == Len(suf) <= Len(s) /\ HasAt(s, Len(s) - Len(suf) + 1, suf)

\* positions at which lit occurs in s
Occurrences(s, lit) == { i \in 1..Len(s) : HasAt(s, i, lit) }

Lower == << "a", "b", "c", "d", "e", "f", "g", "h", "i", "j", "k", "l", "m",
            "n", "o", "p", "q", "r", "s", "t", "u", "v", "w", "x", "y", "z" >>
Upper == << "A", "B", "C", "D", "E", "F", "G", "H", "I", "J", "K", "L", "M",
            "N", "O", "P", "Q", "R", "S", "T", "U", "V", "W", "X", "Y", "Z" >>

UpperChar(c) ==
  IF \E k \in DOMAIN Lower : Lower[k] = c
  THEN Upper[CHOOSE k \in DOMAIN Lower : Lower[k] = c] ELSE c

LowerChar(c) ==
  IF \E k \in DOMAIN Upper : Upper[k] = c
  THEN Lower[CHOOSE k \in DOMAIN Upper : Upper[k] = c] ELSE c

ToUpperCase(s) == [ i \in DOMAIN s |-> UpperChar(s[i]) ]
ToLowerCase(s) == [ i \in DOMAIN s |-> LowerChar(s[i]) ]

WhiteSpace == { " ", "\t", "\n" }

\* String.prototype.trim
Trim(s) ==
  LET ink == { i \in DOMAIN s : s[i] \notin WhiteSpace }
  IN  IF ink = {} THEN << >>
      ELSE Sub(s, Min(ink), CHOOSE j \in ink : \A i \in ink : i <= j)

\* formatArg.split("=")[1]: the text between the first "=" and the next one
\* (undefined, here << >>, when there is no "=")
SplitEq1(s) ==
  LET eqs == { i \in DOMAIN s : s[i] = "=" }
  IN  IF eqs = {} THEN << >>
      ELSE LET first == Min(eqs)
               later == { i \in eqs : i > first }
           IN  Sub(s, first + 1, IF later = {} THEN Len(s) ELSE Min(later) - 1)

-----------------------------------------------------------------------------
(* Paper formats and format selection                                      *)

A2 == << "A", "2" >>
A3 == << "A", "3" >>
A4 == << "A", "4" >>
A5 == << "A", "5" >>
NoFormat == << >>

\* Object.keys(formatConfigs)
formatConfigs == { A2, A3, A4, A5 }

FormatFlag == << "-", "-", "f", "o", "r", "m", "a", "t", "=" >>
HelpLong == << "-", "-", "h", "e", "l", "p" >>
HelpShort == << "-", "h" >>

\* args.find((arg) => arg.startsWith("--format=")); << >> when there is none
FindFormatArg(args) ==
  LET hits == { i \in DOMAIN args : StartsWith(args[i], FormatFlag) }
  IN  IF hits = {} THEN << >> ELSE args[Min(hits)]

\* getFormatFromArgs: [format |-> the format or NoFormat, warned |-> a warning was logged]
getFormatFromArgs(args) ==
  LET formatArg == FindFormatArg(args)
  IN  IF formatArg = << >> THEN [format |-> NoFormat, warned |-> FALSE]
      ELSE LET f == ToUpperCase(SplitEq1(formatArg))
           IN  IF f \in formatConfigs
               THEN [format |-> f, warned |-> FALSE]
               ELSE [format |-> NoFormat, warned |-> TRUE]

\* the switch of promptForFormat on answer.trim() || "3"
promptForFormat(line) ==
  LET t == Trim(line)
      choice == IF t = << >> THEN << "3" >> ELSE t
  IN  CASE choice = << "1" >> -> [format |-> A2, warned |-> FALSE]
        [] choice = << "2" >> -> [format |-> A3, warned |-> FALSE]
        [] choice = << "3" >> -> [format |-> A4, warned |-> FALSE]
        [] choice = << "4" >> -> [format |-> A5, warned |-> FALSE]
        [] OTHER -> [format |-> A4, warned |-> TRUE]

-----------------------------------------------------------------------------
(* Image inlining: convertMarkdownToPdf, the regex and its replace callback *)

Png == << "p", "n", "g" >>
Jpg == << "j", "p", "g" >>
Jpeg == << "j", "p", "e", "g" >>
Gif == << "g", "i", "f" >>
Svg == << "s", "v", "g" >>

\* the alternation (png|jpg|jpeg|gif|svg) of the regex
RegexExts == { Png, Jpg, Jpeg, Gif, Svg }

\* "." of a regex without the s flag matches no line terminator
NoLineBreak(s, i, j) == \A k \in i..j : s[k] \notin { "\n", "\r" }

\* positions k of the "." that ends the lazy path .*? when "](./" is at j
PathEnds(s, j) ==
  { k \in (j + 4)..Len(s) :
      /\ NoLineBreak(s, j + 4, k - 1)
      /\ \E e \in RegexExts : HasAt(s, k, << "." >> \o e \o << ")" >>) }

\* positions j of the "]" that ends the lazy alt .*? when "![" is at i
AltEnds(s, i) ==
  { j \in (i + 2)..Len(s) :
      /\ NoLineBreak(s, i + 2, j - 1)
      /\ HasAt(s, j, << "]", "(", ".", "/" >>)
      /\ PathEnds(s, j) # {} }

\* /!\[.*?\]\((\.\/.*?\.(png|jpg|jpeg|gif|svg))\)/ matches at position i
MatchesAt(s, i) == HasAt(s, i, << "!", "[" >>) /\ AltEnds(s, i) # {}

\* the match at i: lazy quantifiers take the shortest alt, then the shortest path
MatchAt(s, i) ==
  LET j == Min(AltEnds(s, i))
      k == Min(PathEnds(s, j))
      e == CHOOSE x \in RegexExts : HasAt(s, k, << "." >> \o x \o << ")" >>)
  IN  [ start |-> i, stop |-> k + Len(e) + 1,
        match |-> Sub(s, i, k + Len(e) + 1),
        imgPath |-> Sub(s, j + 2, k + Len(e)) ]

\* the successive matches of the g-flagged regex from position pos on
RECURSIVE MatchList(_, _)
MatchList(s, pos) ==
  LET starts == { i \in pos..Len(s) : MatchesAt(s, i) }
  IN  IF starts = {} THEN << >>
      ELSE LET m == MatchAt(s, Min(starts))
           IN  << m >> \o MatchList(s, m.stop + 1)

\* path.extname(p).slice(1)
ExtName(p) ==
  LET slashes == { i \in DOMAIN p : p[i] = "/" }
      base == IF slashes = {} THEN 1
              ELSE (CHOOSE i \in slashes : \A j \in slashes : j <= i) + 1
      dots == { i \in base..Len(p) : p[i] = "." }
  IN  IF dots = {} THEN << >>
      ELSE LET d == CHOOSE i \in dots : \A j \in dots : j <= i
           IN  IF d = base THEN << >> ELSE Sub(p, d + 1, Len(p))

B64 == << "A", "B", "C", "D", "E", "F", "G", "H", "I", "J", "K", "L", "M", "N", "O", "P",
          "Q", "R", "S", "T", "U", "V", "W", "X", "Y", "Z", "a", "b", "c", "d", "e", "f",
          "g", "h", "i", "j", "k", "l", "m", "n", "o", "p", "q", "r", "s", "t", "u", "v",
          "w", "x", "y", "z", "0", "1", "2", "3", "4", "5", "6", "7", "8", "9", "+", "/" >>

\* imgBuffer.toString("base64")
RECURSIVE Base64(_)
Base64(b) ==
  IF Len(b) = 0 THEN << >>
  ELSE IF Len(b) = 1
  THEN << B64[(b[1] \div 4) + 1], B64[((b[1] % 4) * 16) + 1], "=", "=" >>
  ELSE IF Len(b) = 2
  THEN << B64[(b[1] \div 4) + 1], B64[((b[1] % 4) * 16) + (b[2] \div 16) + 1],
          B64[((b[2] % 16) * 4) + 1], "=" >>
  ELSE << B64[(b[1] \div 4) + 1], B64[((b[1] % 4) * 16) + (b[2] \div 16) + 1],
          B64[((b[2] % 16) * 4) + (b[3] \div 64) + 1], B64[(b[3] % 64) + 1] >>
       \o Base64(Sub(b, 4, Len(b)))

\* the bytes fs.readFileSync returns for a readable image: its path length, twice
FileBytes(p) == << Len(p), 2 * Len(p) >>

MimeType(ext) == << "i", "m", "a", "g", "e", "/" >> \o (IF ext = Jpg THEN Jpeg ELSE ext)

\* imageToBase64; << >> stands for null
imageToBase64(imgPath, readable) ==
  IF imgPath \notin readable THEN << >>
  ELSE << "d", "a", "t", "a", ":" >> \o MimeType(ExtName(imgPath))
       \o << ";", "b", "a", "s", "e", "6", "4", "," >> \o Base64(FileBytes(imgPath))

\* String.prototype.replace(pattern: string, replacement): the first occurrence only
\* (no replacement here holds a "$")
ReplaceFirst(str, pat, rep) ==
  LET occ == Occurrences(str, pat)
  IN  IF occ = {} THEN str
      ELSE LET i == Min(occ)
           IN  Sub(str, 1, i - 1) \o rep \o Sub(str, i + Len(pat), Len(str))

\* the replace callback (match, imgPath) => ...
ReplaceCallback(m, readable) ==
  LET base64 == imageToBase64(m.imgPath, readable)
  IN  IF base64 # << >> THEN ReplaceFirst(m.match, m.imgPath, base64) ELSE m.match

\* markdown.replace(regex, callback) given the matches from position pos on
RECURSIVE Splice(_, _, _, _)
Splice(s, pos, ms, readable) ==
  IF ms = << >> THEN Sub(s, pos, Len(s))
  ELSE Sub(s, pos, ms[1].start - 1) \o ReplaceCallback(ms[1], readable)
       \o Splice(s, ms[1].stop + 1, Tail(ms), readable)

InlineImages(s, readable) == Splice(s, 1, MatchList(s, 1), readable)

\* some matched reference could not be read: imageToBase64 logs an error
ImageReadFailed(s, readable) ==
  LET ms == MatchList(s, 1)
  IN  \E n \in DOMAIN ms : ms[n].imgPath \notin readable

-----------------------------------------------------------------------------
(* File names, the output directory, artifact names                        *)

MdExt == << ".", "m", "d" >>
PdfExt == << ".", "p", "d", "f" >>

\* a filter without the dot
IsMarkdownLoose(name) == EndsWith(name, << "m", "d" >>)

\* file.endsWith(".md"), the filter of main
IsMarkdown(name) == EndsWith(name, MdExt)

\* a filter without the dot
IsPdfLoose(name) == EndsWith(name, << "p", "d", "f" >>)

\* a filter for the upper-case extension
IsPdfUpper(name) == EndsWith(name, << ".", "P", "D", "F" >>)

\* file.endsWith(".pdf"), the filter of cleanOutputDir
IsPdf(name) == EndsWith(name, PdfExt)

\* the first version of the program: fileName.replace(/\.md$/, ".pdf")
OutputFileNameV0(fileName) ==
  IF EndsWith(fileName, MdExt)
  THEN Sub(fileName, 1, Len(fileName) - Len(MdExt)) \o PdfExt
  ELSE fileName

\* the format tag without toLowerCase
OutputFileNameUpper(fileName, fmt) ==
  IF EndsWith(fileName, MdExt)
  THEN Sub(fileName, 1, Len(fileName) - Len(MdExt)) \o << "." >> \o fmt \o PdfExt
  ELSE fileName

\* fileName.replace(/\.md$/, `.${format.toLowerCase()}.pdf`)
OutputFileName(fileName, fmt) ==
  IF EndsWith(fileName, MdExt)
  THEN Sub(fileName, 1, Len(fileName) - Len(MdExt))
       \o << "." >> \o ToLowerCase(fmt) \o PdfExt
  ELSE fileName

\* a Document's text is the concatenation of its fragments: an image reference
\* ![alt](path) or literal characters
FragText(f) ==
  IF f.img THEN << "!", "[" >> \o f.alt \o << "]", "(" >> \o f.path \o << ")" >>
  ELSE f.chars

RECURSIVE Text(_)
Text(doc) == IF doc = << >> THEN << >> ELSE FragText(doc[1]) \o Text(Tail(doc))

\* the entry of INPUT_DIR called name
Entry(name) ==
  inputDir.entries[CHOOSE i \in DOMAIN inputDir.entries : inputDir.entries[i].name = name]

\* fs.readdirSync(INPUT_DIR).filter((file) => file.endsWith(".md"))
RECURSIVE Discovered(_)
Discovered(entries) ==
  IF entries = << >> THEN << >>
  ELSE (IF IsMarkdown(entries[1].name) THEN << entries[1].name >> ELSE << >>)
       \o Discovered(Tail(entries))

-----------------------------------------------------------------------------
(* The inputs                                                              *)

MaxFiles == 2   \* entries of INPUT_DIR
MaxOut == 2     \* entries of OUTPUT_DIR before the first run
MaxFrags == 2   \* fragments of a Document

\* the sequences of at most n distinct elements of S
Lists(S, n) ==
  { s \in UNION { [1..k -> S] : k \in 0..n } : \A i, j \in DOMAIN s : i # j => s[i] # s[j] }

Arg(value) == FormatFlag \o value

ArgvChoices ==
  { << >>,
    << Arg(<< "A", "4" >>) >>,
    << Arg(<< "a", "5" >>) >>,
    << Arg(<< "A", "9" >>) >>,
    << Arg(<< >>) >>,
    << Arg(<< "A", "4", "=", "x" >>) >>,
    << << "-", "v" >>, Arg(<< "a", "2" >>), Arg(<< "A", "3" >>) >>,
    << HelpLong >>,
    << Arg(<< "A", "3" >>), HelpShort >> }

Answers ==
  { << >>, << "1" >>, << "2" >>, << "3" >>, << "4" >>, << " ", "2", " " >>,
    << " " >>, << "5" >>, << "A", "4" >> }

DPng == << ".", "/", "d", ".", "p", "n", "g" >>
MJpg == << ".", "/", "m", ".", "j", "p", "g" >>
NTxt == << ".", "/", "n", ".", "t", "x", "t" >>

ImagePool == { DPng, MJpg }

Img(alt, path) == [ img |-> TRUE, alt |-> alt, path |-> path, chars |-> << >> ]
Chars(c) == [ img |-> FALSE, alt |-> << >>, path |-> << >>, chars |-> c ]

FragPool ==
  { Img(<< "a" >>, DPng),
    Img(DPng, DPng),
    Img(<< "b" >>, MJpg),
    Img(<< "c" >>, NTxt),
    Img(<< "f" >>, << "h", ".", "p", "n", "g" >>),
    Chars(<< " ", "[", "l", "]", "(", "x", ")", " " >>),
    Chars(<< "\n" >>) }

Docs == UNION { [1..k -> FragPool] : k \in 0..MaxFrags }

AMd == << "a", ".", "m", "d" >>
BMd == << "b", ".", "m", "d" >>

\* the Documents of the whole-program specification
DocOf(name) ==
  IF name = AMd THEN << Chars(<< "#", " ", "T", "\n" >>), Img(<< "a" >>, DPng) >>
  ELSE << Img(<< "b" >>, MJpg) >>

File(name) == [ name |-> name, exists |-> TRUE, doc |-> DocOf(name) ]

\* a dangling symbolic link: readdirSync lists it, existsSync says no
Dangling(name) == [ name |-> name, exists |-> FALSE, doc |-> << >> ]

EntryPool ==
  { File(AMd), File(BMd), Dangling(<< "d", ".", "m", "d" >>), File(<< "a", "m", "d" >>) }

InputDirs ==
  { [ readable |-> TRUE, entries |-> e ] : e \in Lists(EntryPool, MaxFiles) }
  \cup { [ readable |-> FALSE, entries |-> << >> ] }

OldPdf == << "o", ".", "p", "d", "f" >>
SubPdf == << "s", ".", "p", "d", "f" >>
XPdf == << "x", "p", "d", "f" >>
AA4Pdf == << "a", ".", "a", "4", ".", "p", "d", "f" >>

OutPool == { OldPdf, SubPdf, XPdf, AA4Pdf }

\* s.pdf is a subdirectory: unlinkSync fails on it
Unremovable == { SubPdf }

OutDirs ==
  { [ state |-> "dir", mkdirOk |-> TRUE, files |-> F ] :
      F \in { G \in SUBSET OutPool : Cardinality(G) <= MaxOut } }
  \cup { [ state |-> "absent", mkdirOk |-> b, files |-> {} ] : b \in BOOLEAN }
  \cup { [ state |-> "notdir", mkdirOk |-> FALSE, files |-> {} ],
         [ state |-> "unlistable", mkdirOk |-> FALSE, files |-> { OldPdf } ] }

-----------------------------------------------------------------------------
(* The main function, step by step                                         *)

NoPrev == [ format |-> NoFormat, out |-> {}, log |-> {}, pc |-> "none" ]

\* lines 450-467: --help, getFormatFromArgs, and the call of promptForFormat
Start ==
  /\ pc = "start"
  /\ \/ /\ HelpLong \in Range(argv) \/ HelpShort \in Range(argv)
        /\ log' = log \cup { "help" }
        /\ pc' = "done"
        /\ UNCHANGED format
     \/ /\ HelpLong \notin Range(argv) /\ HelpShort \notin Range(argv)
        /\ LET r == getFormatFromArgs(argv)
           IN  IF r.format # NoFormat
               THEN /\ format' = r.format
                    /\ log' = log \cup { "selected" }
                    /\ pc' = "clean"
               ELSE /\ format' = NoFormat
                    /\ log' = log \cup { "menu" }
                               \cup (IF r.warned THEN { "invalidFormat" } ELSE {})
                    /\ pc' = "prompt"
  /\ UNCHANGED << argv, inputDir, images, outState, mkdirOk, outFiles, locked, files,
                  idx, markdown, open, launched, ended, written, run, prev, outBefore >>

\* the rl.question callback of promptForFormat, for the line read from stdin
Answer ==
  /\ pc = "prompt"
  /\ \E a \in Answers :
       LET r == promptForFormat(a)
       IN  /\ format' = r.format
           /\ log' = log \cup { "selected" }
                      \cup (IF r.warned THEN { "invalidOption" } ELSE {})
  /\ pc' = "clean"
  /\ UNCHANGED << argv, inputDir, images, outState, mkdirOk, outFiles, locked, files,
                  idx, markdown, open, launched, ended, written, run, prev, outBefore >>

\* cleanOutputDir
Clean ==
  /\ pc = "clean"
  /\ pc' = "discover"
  /\ \/ /\ outState = "absent" /\ mkdirOk
        /\ outState' = "dir"
        /\ log' = log \cup { "created" }
        /\ UNCHANGED outFiles
     \/ /\ outState = "absent" /\ ~mkdirOk      \* mkdirSync throws: the outer catch
        /\ log' = log \cup { "cleanError" }
        /\ UNCHANGED << outState, outFiles >>
     \/ /\ outState \in { "notdir", "unlistable" }   \* readdirSync throws: the outer catch
        /\ log' = log \cup { "cleanError" }
        /\ UNCHANGED << outState, outFiles >>
     \/ /\ outState = "dir"
        /\ LET pdfFiles == { f \in outFiles : IsPdf(f) }
           IN  IF pdfFiles = {}
               THEN /\ log' = log \cup { "alreadyClean" }
                    /\ UNCHANGED outFiles
               ELSE /\ outFiles' = outFiles \ (pdfFiles \ locked)
                    /\ log' = log \cup { "cleanDone" }
                               \cup (IF pdfFiles \cap locked # {} THEN { "removeError" } ELSE {})
                               \cup (IF pdfFiles \ locked # {} THEN { "removed" } ELSE {})
        /\ UNCHANGED outState
  /\ UNCHANGED << argv, format, inputDir, images, mkdirOk, locked, files, idx, markdown,
                  open, launched, ended, written, run, prev, outBefore >>

\* lines 476-487: readdirSync(INPUT_DIR), the filter, the empty case
Discover ==
  /\ pc = "discover"
  /\ \/ /\ ~inputDir.readable                   \* readdirSync throws out of main
        /\ pc' = "crashed"
        /\ UNCHANGED << files, log >>
     \/ /\ inputDir.readable
        /\ files' = Discovered(inputDir.entries)
        /\ IF files' = << >>
           THEN log' = log \cup { "noMarkdown" } /\ pc' = "done"
           ELSE log' = log \cup { "found" } /\ pc' = "loop"
  /\ UNCHANGED << argv, format, inputDir, images, outState, mkdirOk, outFiles, locked,
                  idx, markdown, open, launched, ended, written, run, prev, outBefore >>

\* the rejection caught around the call and the loop going on, the browser left as it is
ThrowSwallowed ==
  /\ ended' = ended \cup { idx }
  /\ pc' = "loop"

\* an awaited puppeteer call rejects inside convertMarkdownToPdf: nothing catches
\* it, so the function ends there and the rejection leaves main's for loop
Throw ==
  /\ ended' = ended \cup { idx }
  /\ pc' = "crashed"

\* lines 491-498 and 175-423: the loop's next file, up to puppeteer.launch
LoopStep ==
  /\ pc = "loop"
  /\ \/ /\ idx = Len(files)
        /\ log' = log \cup { "success" }
        /\ pc' = "done"
        /\ UNCHANGED << idx, markdown, ended >>
     \/ /\ idx < Len(files)
        /\ ~Entry(files[idx + 1]).exists         \* existsSync(inputPath) is false
        /\ idx' = idx + 1
        /\ log' = log \cup { "processing", "notFound" }
        /\ ended' = ended \cup { idx + 1 }
        /\ pc' = "loop"
        /\ UNCHANGED markdown
     \/ /\ idx < Len(files)
        /\ Entry(files[idx + 1]).exists
        /\ idx' = idx + 1
        /\ LET text == Text(Entry(files[idx + 1]).doc)
           IN  /\ markdown' = InlineImages(text, images)
               /\ log' = log \cup { "processing" }
                          \cup (IF ImageReadFailed(text, images) THEN { "imageError" } ELSE {})
        /\ pc' = "launch"
        /\ UNCHANGED ended
  /\ UNCHANGED << argv, format, inputDir, images, outState, mkdirOk, outFiles, locked,
                  files, open, launched, written, run, prev, outBefore >>

\* await puppeteer.launch(...)
Launch ==
  /\ pc = "launch"
  /\ \/ /\ open' = open \cup { idx }
        /\ launched' = launched \cup { idx }
        /\ pc' = "newPage"
        /\ UNCHANGED ended
     \/ /\ Throw
        /\ UNCHANGED << open, launched >>
  /\ UNCHANGED << argv, format, log, inputDir, images, outState, mkdirOk, outFiles,
                  locked, files, idx, markdown, written, run, prev, outBefore >>

\* await browser.newPage()
NewPage ==
  /\ pc = "newPage"
  /\ \/ pc' = "setContent" /\ UNCHANGED ended
     \/ Throw
  /\ UNCHANGED << argv, format, log, inputDir, images, outState, mkdirOk, outFiles,
                  locked, files, idx, markdown, open, launched, written, run, prev,
                  outBefore >>

\* await page.setContent(html, { waitUntil: "networkidle0" })
SetContent ==
  /\ pc = "setContent"
  /\ \/ pc' = "pdf" /\ UNCHANGED ended
     \/ Throw
  /\ UNCHANGED << argv, format, log, inputDir, images, outState, mkdirOk, outFiles,
                  locked, files, idx, markdown, open, launched, written, run, prev,
                  outBefore >>

\* await page.pdf({ path: outputPath, ... }): the write needs OUTPUT_DIR to be a
\* directory and the path not to be an entry that cannot be replaced; it can fail
\* for any other reason too
PdfTo(name) ==
  /\ pc = "pdf"
  /\ \/ /\ outState \in { "dir", "unlistable" } /\ name \notin locked
        /\ outFiles' = outFiles \cup { name }
        /\ written' = Append(written, [ src |-> files[idx], name |-> name ])
        /\ pc' = "close"
        /\ UNCHANGED ended
     \/ /\ Throw
        /\ UNCHANGED << outFiles, written >>
  /\ UNCHANGED << argv, format, log, inputDir, images, outState, mkdirOk, locked, files,
                  idx, markdown, open, launched, run, prev, outBefore >>

Pdf == PdfTo(OutputFileName(files[idx], format))

\* await browser.close(), the log line, the return
Close ==
  /\ pc = "close"
  /\ open' = open \ { idx }
  /\ ended' = ended \cup { idx }
  /\ log' = log \cup { "generated" }
  /\ pc' = "loop"
  /\ UNCHANGED << argv, format, inputDir, images, outState, mkdirOk, outFiles, locked,
                  files, idx, markdown, launched, written, run, prev, outBefore >>

\* the program is started again on the same directories
Rerun ==
  /\ run = "first"
  /\ pc \in { "done", "crashed" }
  /\ run' = "second"
  /\ prev' = [ format |-> format, out |-> outFiles, log |-> log, pc |-> pc ]
  /\ pc' = "start"
  /\ format' = NoFormat
  /\ log' = {}
  /\ files' = << >>
  /\ idx' = 0
  /\ markdown' = << >>
  /\ open' = {}
  /\ launched' = {}
  /\ ended' = {}
  /\ written' = << >>
  /\ outBefore' = outFiles
  /\ UNCHANGED << argv, inputDir, images, outState, mkdirOk, outFiles, locked >>

-----------------------------------------------------------------------------
(* Initial states and the specification                                    *)

\* the arguments and the directories the process finds
Environment(args, in, out, imgs) ==
  /\ argv = args
  /\ inputDir = in
  /\ images = imgs
  /\ outState = out.state
  /\ mkdirOk = out.mkdirOk
  /\ outFiles = out.files
  /\ locked = out.files \cap Unremovable
  /\ outBefore = out.files

\* the process before it has done anything, main at position at
Fresh(at) ==
  /\ pc = at
  /\ format = NoFormat
  /\ log = {}
  /\ files = << >>
  /\ idx = 0
  /\ markdown = << >>
  /\ open = {}
  /\ launched = {}
  /\ ended = {}
  /\ written = << >>
  /\ run = "first"
  /\ prev = NoPrev

Init ==
  \E args \in ArgvChoices, in \in InputDirs, out \in OutDirs :
    Environment(args, in, out, { DPng }) /\ Fresh("start")

Next ==
  \/ Start
  \/ Answer
  \/ Clean
  \/ Discover
  \/ LoopStep
  \/ Launch
  \/ NewPage
  \/ SetContent
  \/ Pdf
  \/ Close

Spec == Init /\ [][Next]_vars

\* the program run twice in succession on the same directories
ArgvTwice == { << >>, << Arg(<< "a", "5" >>) >>, << HelpLong >> }

InitTwice ==
  \E args \in ArgvTwice, in \in InputDirs, out \in OutDirs :
    Environment(args, in, out, { DPng }) /\ Fresh("start")

NextTwice == Next \/ Rerun

SpecTwice == InitTwice /\ [][NextTwice]_vars

\* one Document, any text: the state main is in when its loop starts, after
\* --format=A4, an empty OUTPUT_DIR and a.md as the only entry of INPUT_DIR
InitInline ==
  \E e \in { [ name |-> AMd, exists |-> TRUE, doc |-> d ] : d \in Docs }
           \cup { Dangling(AMd) },
     imgs \in SUBSET ImagePool :
    /\ argv = << Arg(A4) >>
    /\ inputDir = [ readable |-> TRUE, entries |-> << e >> ]
    /\ images = imgs
    /\ outState = "dir"
    /\ mkdirOk = TRUE
    /\ outFiles = {}
    /\ locked = {}
    /\ outBefore = {}
    /\ pc = "loop"
    /\ format = A4
    /\ log = { "selected", "alreadyClean", "found" }
    /\ files = << AMd >>
    /\ idx = 0
    /\ markdown = << >>
    /\ open = {}
    /\ launched = {}
    /\ ended = {}
    /\ written = << >>
    /\ run = "first"
    /\ prev = NoPrev

NextInline ==
  \/ LoopStep
  \/ Launch
  \/ NewPage
  \/ SetContent
  \/ Pdf
  \/ Close

SpecInline == InitInline /\ [][NextInline]_vars

-----------------------------------------------------------------------------
(* The first version of the program (part_000): no format, no cleanup, no  *)
(* image inlining                                                          *)

\* part_000 lines 66-73
DiscoverV0 ==
  /\ pc = "discover"
  /\ \/ /\ ~inputDir.readable
        /\ pc' = "crashed"
        /\ UNCHANGED << files, log >>
     \/ /\ inputDir.readable
        /\ files' = Discovered(inputDir.entries)
        /\ IF files' = << >>
           THEN log' = log \cup { "noMarkdown" } /\ pc' = "done"
           ELSE log' = log /\ pc' = "loop"
  /\ UNCHANGED << argv, format, inputDir, images, outState, mkdirOk, outFiles, locked,
                  idx, markdown, open, launched, ended, written, run, prev, outBefore >>

\* part_000 lines 75-77 and 10-42
LoopStepV0 ==
  /\ pc = "loop"
  /\ \/ /\ idx = Len(files)
        /\ pc' = "done"
        /\ UNCHANGED << idx, markdown, ended, log >>
     \/ /\ idx < Len(files)
        /\ ~Entry(files[idx + 1]).exists
        /\ idx' = idx + 1
        /\ log' = log \cup { "notFound" }
        /\ ended' = ended \cup { idx + 1 }
        /\ pc' = "loop"
        /\ UNCHANGED markdown
     \/ /\ idx < Len(files)
        /\ Entry(files[idx + 1]).exists
        /\ idx' = idx + 1
        /\ markdown' = Text(Entry(files[idx + 1]).doc)
        /\ pc' = "launch"
        /\ UNCHANGED << ended, log >>
  /\ UNCHANGED << argv, format, inputDir, images, outState, mkdirOk, outFiles, locked,
                  files, open, launched, written, run, prev, outBefore >>

\* part_000 lines 46-56
PdfV0 == PdfTo(OutputFileNameV0(files[idx]))

InitV0 ==
  \E in \in InputDirs, out \in OutDirs :
    Environment(<< >>, in, out, { DPng }) /\ Fresh("discover")

NextV0 ==
  \/ DiscoverV0
  \/ LoopStepV0
  \/ Launch
  \/ NewPage
  \/ SetContent
  \/ PdfV0
  \/ Close

SpecV0 == InitV0 /\ [][NextV0]_vars

-----------------------------------------------------------------------------
(* Properties                                                              *)

Converting == pc \in { "launch", "newPage", "setContent", "pdf", "close" }

\* <basename>.<format-lowercase>.pdf, written out
FormatTag(fmt) ==
  CASE fmt = A2 -> << "a", "2" >>
    [] fmt = A3 -> << "a", "3" >>
    [] fmt = A4 -> << "a", "4" >>
    [] fmt = A5 -> << "a", "5" >>
    [] OTHER -> << "?" >>

ArtifactName(fileName, fmt) ==
  Sub(fileName, 1, Len(fileName) - 3) \o << "." >> \o FormatTag(fmt) \o << ".", "p", "d", "f" >>

EndsInPdf(name) == EndsWith(name, << ".", "p", "d", "f" >>)
EndsInMd(name) == EndsWith(name, << ".", "m", "d" >>)

\* C1: a Document whose conversion has ended has no open browser.
C1_BrowserClosedWhenConversionEnds == \A i \in ended : i \notin open

\* C2: when the run is over, the conversion of every discovered file has been
\* started, whatever failed on the way.
C2_EveryFileAttempted ==
  (pc \in { "done", "crashed" } /\ files # << >>) => idx = Len(files)

\* C3: at most one Document is in progress, at most one browser is open, and
\* every Document before the current one has ended with its browser closed.
C3_OneAtATime ==
  /\ Cardinality((1..idx) \ ended) <= 1
  /\ Cardinality(open) <= 1
  /\ \A i \in 1..(idx - 1) : i \in ended /\ i \notin open

C3_Witness == idx = 2 /\ pc = "pdf" /\ open = { 2 } /\ launched = { 1, 2 }

\* the first Document's conversion has started and nothing is written yet
FirstConversionStarts == idx >= 1 /\ written = << >>

\* only files ending in .pdf were removed, nothing was added
SweepOnlyPdf ==
  /\ outFiles \subseteq outBefore
  /\ \A f \in outBefore : ~EndsInPdf(f) => f \in outFiles

\* every .pdf whose deletion did not fail is gone
SweptPdf == \A f \in outBefore : (EndsInPdf(f) /\ f \notin locked) => f \notin outFiles

\* cleanOutputDir comes before any conversion
CleanFirst ==
  pc \in { "start", "prompt", "clean" } =>
    idx = 0 /\ launched = {} /\ written = << >> /\ outFiles = outBefore

\* C4 as stated: when the first conversion starts, cleanOutputDir has completed,
\* the output directory exists, every .pdf whose deletion did not fail is removed
\* and every other file is unchanged.
C4_CleanedBeforeFirstConversion ==
  /\ CleanFirst
  /\ FirstConversionStarts => (outState = "dir" /\ SweptPdf /\ SweepOnlyPdf)

\* C4 amended: the same, except that when creating or listing the output
\* directory failed (cleanOutputDir logs it and the run goes on) the directory
\* need not exist and nothing is removed.
C4_CleanedUnlessDirectoryError ==
  /\ CleanFirst
  /\ FirstConversionStarts =>
       /\ SweepOnlyPdf
       /\ "cleanError" \notin log => (outState = "dir" /\ SweptPdf)
       /\ "cleanError" \in log => outFiles = outBefore

C4_Witness ==
  /\ FirstConversionStarts /\ pc = "launch"
  /\ "removed" \in log
  /\ XPdf \in outFiles

PdfNames(S) == { f \in S : EndsInPdf(f) }

BothRunsCompleted ==
  /\ run = "second" /\ pc = "done" /\ prev.pc = "done"
  /\ format # NoFormat /\ format = prev.format

ArtifactsOfRun == { ArtifactName(files[i], format) : i \in DOMAIN files }

\* C5 as stated: after two completed runs with the same format, the PDFs in the
\* output directory are the same as after the first run, one per discovered file
\* and no other.
C5_SameArtifactsAfterSecondRun ==
  BothRunsCompleted =>
    /\ PdfNames(outFiles) = PdfNames(prev.out)
    /\ PdfNames(outFiles) = ArtifactsOfRun

\* C5 amended: the same, provided that in neither run the cleanup logged an
\* error (a directory error or a failed deletion) and no discovered file was
\* reported missing.
C5_SameArtifactsWhenNothingFailed ==
  (/\ BothRunsCompleted
   /\ { "cleanError", "removeError", "notFound" } \cap (log \cup prev.log) = {})
  => /\ PdfNames(outFiles) = PdfNames(prev.out)
     /\ PdfNames(outFiles) = ArtifactsOfRun

C5_Witness ==
  /\ BothRunsCompleted
  /\ { "cleanError", "removeError", "notFound" } \cap (log \cup prev.log) = {}
  /\ Len(files) = 2
  /\ "removed" \in prev.log /\ "removed" \in log
  /\ "success" \in log

\* the Document being converted, as fragments
CurrentDoc == Entry(files[idx]).doc

\* a local image reference: ![alt](path), path from ./ to a supported extension
IsLocalImage(f) ==
  /\ f.img
  /\ StartsWith(f.path, << ".", "/" >>)
  /\ \E e \in { Png, Jpg, Jpeg, Gif, Svg } : EndsWith(f.path, << "." >> \o e)

MediaType(f) ==
  LET e == CHOOSE x \in { Png, Jpg, Jpeg, Gif, Svg } : EndsWith(f.path, << "." >> \o x)
  IN  << "i", "m", "a", "g", "e", "/" >> \o (IF e = Jpg THEN Jpeg ELSE e)

\* what a fragment becomes: a readable local image gets its data URI in place of
\* the path, everything else stays as it is
ExpectedFrag(f) ==
  IF IsLocalImage(f) /\ f.path \in images
  THEN << "!", "[" >> \o f.alt \o << "]", "(" >>
       \o << "d", "a", "t", "a", ":" >> \o MediaType(f)
       \o << ";", "b", "a", "s", "e", "6", "4", "," >> \o Base64(FileBytes(f.path))
       \o << ")" >>
  ELSE FragText(f)

RECURSIVE ExpectedText(_)
ExpectedText(doc) ==
  IF doc = << >> THEN << >> ELSE ExpectedFrag(doc[1]) \o ExpectedText(Tail(doc))

Inlined == idx >= 1 /\ Entry(files[idx]).exists

\* C6: in a Document with a local image reference that cannot be read, that
\* reference is left as it is and every readable one is replaced by its data URI.
C6_UnreadableLeftSiblingsInlined ==
  (/\ Inlined
   /\ \E n \in DOMAIN CurrentDoc :
        IsLocalImage(CurrentDoc[n]) /\ CurrentDoc[n].path \notin images)
  => markdown = ExpectedText(CurrentDoc)

\* C7: every readable local image reference carries its data URI in place of
\* its path, whatever surrounds it, and all other text is preserved.
C7_ReadableReferencesInlined ==
  Inlined => markdown = ExpectedText(CurrentDoc)

\* C8: every artifact written is <basename>.<format-lowercase>.pdf of a discovered
\* file, no artifact name is written twice, and different discovered files have
\* different artifact names under every format.
C8_ArtifactNames ==
  /\ \A n \in DOMAIN written :
       /\ written[n].src \in Range(files)
       /\ written[n].name = ArtifactName(written[n].src, format)
  /\ \A m, n \in DOMAIN written : m # n => written[m].name # written[n].name
  /\ \A F \in formatConfigs : \A i, j \in DOMAIN files :
       /\ OutputFileName(files[i], F) = ArtifactName(files[i], F)
       /\ i # j => OutputFileName(files[i], F) # OutputFileName(files[j], F)

C8_Witness == Len(written) = 2 /\ pc = "done"

\* the text after --format= in the first such argument
FlagValue ==
  LET a == FindFormatArg(argv) IN Sub(a, Len(FormatFlag) + 1, Len(a))

HasFlag == FindFormatArg(argv) # << >>

\* the prompt as the claim describes it, on the trimmed answer
PromptAsClaimed ==
  \A a \in Answers :
    LET r == promptForFormat(a)
        t == Trim(a)
    IN  /\ t = << "1" >> => r = [ format |-> A2, warned |-> FALSE ]
        /\ t = << "2" >> => r = [ format |-> A3, warned |-> FALSE ]
        /\ t = << "3" >> => r = [ format |-> A4, warned |-> FALSE ]
        /\ t = << "4" >> => r = [ format |-> A5, warned |-> FALSE ]
        /\ t = << >> => r = [ format |-> A4, warned |-> FALSE ]
        /\ t \notin { << >>, << "1" >>, << "2" >>, << "3" >>, << "4" >> }
             => r = [ format |-> A4, warned |-> TRUE ]

\* C9: once the format is selected it is one of the four; a flag whose upper-cased
\* value is one of them selects it without a prompt; a flag with any other value
\* logs a warning and leads to the prompt, which answers as described.
C9_FormatSelection ==
  (pc \notin { "start", "prompt" } /\ "help" \notin log) =>
    /\ format \in formatConfigs
    /\ (HasFlag /\ ToUpperCase(FlagValue) \in formatConfigs)
         => (format = ToUpperCase(FlagValue) /\ "menu" \notin log)
    /\ (HasFlag /\ ToUpperCase(FlagValue) \notin formatConfigs)
         => ("invalidFormat" \in log /\ "menu" \in log)
    /\ "invalidOption" \in log => format = A4
    /\ PromptAsClaimed

NoMarkdownInput ==
  /\ inputDir.readable
  /\ \A i \in DOMAIN inputDir.entries : ~EndsInMd(inputDir.entries[i].name)

\* C10: with no .md file in the input directory no conversion starts, no browser
\* is launched, nothing is written, and the run ends after the message.
C10_NothingDoneWithoutMarkdown ==
  NoMarkdownInput =>
    /\ idx = 0 /\ launched = {} /\ open = {} /\ written = << >>
    /\ outFiles \subseteq outBefore
    /\ ~Converting /\ pc \notin { "loop", "crashed" }
    /\ (pc = "done" /\ "help" \notin log) => ("noMarkdown" \in log /\ "success" \notin log)

C10_Witness ==
  /\ NoMarkdownInput /\ inputDir.entries # << >>
  /\ pc = "done" /\ "noMarkdown" \in log /\ "removed" \in log

====
